---- MODULE Spec2Model ----
(***************************************************************************)
(* Model of the two Gemini API gateways of Oracoin:                         *)
(*   onRequest      (src/briefing.js)       the generic gateway            *)
(*   onRequestPost  (src/unnamed/part_000)  the structured analysis gateway *)
(* Every invocation is a process whose steps are the stretches of code      *)
(* between two awaits.  Strings are sequences of segments, JSON texts are   *)
(* a value together with its formatting, so that JSON.parse and             *)
(* JSON.stringify are conversions and not the identity.                     *)
(***************************************************************************)
EXTENDS Naturals, Sequences, FiniteSets

VARIABLES
  request,   \* request[i]: context.request of invocation i (gateway, method, body)
  env,       \* env[i]: context.env.GEMINI_API_KEY of invocation i
  gemini,    \* the behaviours the upstream API shows to a fetch
  pc,        \* pc[i]: the await invocation i is suspended at
  local,     \* local[i]: the handler's local variables
  sent,      \* sent[i]: the outbound calls invocation i has made
  resp,      \* resp[i]: the Responses invocation i has returned
  console,   \* console[i]: what invocation i has written with console.error
  touched    \* touched[i]: whether the body was read, whether the key was read

vars == <<request, env, gemini, pc, local, sent, resp, console, touched>>

(***************************************************************************)
(* Bounds                                                                   *)
(***************************************************************************)
\* Longest coins array in a request body.
MaxCoins == 2
\* Number of concurrent invocations in SpecConc.
NumInv == 2

(***************************************************************************)
(* JavaScript values                                                        *)
(***************************************************************************)
Undefined == "undefined"

CoinNames == {"BTC", "ETH"}

CoinLists == UNION {[1..n -> CoinNames] : n \in 0..MaxCoins}

\* The values the `coins` field takes: absent, a non-array with a length, an array.
CoinsUndefined == [kind |-> "undefined", items |-> <<>>]

CoinsString == [kind |-> "string", items |-> <<>>]

CoinsArray(l) == [kind |-> "array", items |-> l]

CoinsValues == {CoinsUndefined, CoinsString} \cup {CoinsArray(l) : l \in CoinLists}

LangValues == {Undefined, "ko", "en", "KO"}

\* JSON values: null, a number, a request object {lang, coins}, the upstream
\* payload {contents, tools, generationConfig}, an {error} object, a result.
JsValue(kind, lang, coins, text, tools, schema) ==
  [kind |-> kind, lang |-> lang, coins |-> coins, text |-> text,
   tools |-> tools, schema |-> schema]

JsNull == JsValue("null", Undefined, CoinsUndefined, <<>>, "", "")

JsNumber == JsValue("number", Undefined, CoinsUndefined, <<>>, "", "")

JsObject(lang, coins) == JsValue("object", lang, coins, <<>>, "", "")

JsError(message) == JsValue("error", Undefined, CoinsUndefined, <<message>>, "", "")

JsCandidates == JsValue("candidates", Undefined, CoinsUndefined, <<"analysis">>, "", "")

(***************************************************************************)
(* Texts: a body is either not JSON (fmt "text", its characters in str) or  *)
(* the JSON text of val, compact as JSON.stringify writes it (fmt "json")   *)
(* or with insignificant whitespace (fmt "spaced").                         *)
(***************************************************************************)
PlainText(str) == [fmt |-> "text", str |-> str, val |-> JsNull]

JsonText(fmt, val) == [fmt |-> fmt, str |-> <<>>, val |-> val]

\* JSON.stringify
Stringify(val) == JsonText("json", val)

\* JSON.parse, as request.json() and response.json() apply it: the value, or a
\* SyntaxError.
Parse(text) ==
  IF text.fmt = "text"
  THEN [ok |-> FALSE, val |-> JsNull, message |-> "Unexpected token in JSON"]
  ELSE [ok |-> TRUE, val |-> text.val, message |-> ""]

(***************************************************************************)
(* The upstream API as a fetch sees it                                      *)
(***************************************************************************)
NoOutcome ==
  [kind |-> "none", status |-> 0, body |-> PlainText(<<>>), broken |-> FALSE,
   message |-> ""]

\* fetch rejects: a network failure.
NetworkError(message) ==
  [kind |-> "error", status |-> 0, body |-> PlainText(<<>>), broken |-> FALSE,
   message |-> message]

\* fetch resolves to a response; broken: its body stream fails while it is read.
Upstream(status, body, broken) ==
  [kind |-> "response", status |-> status, body |-> body, broken |-> broken,
   message |-> IF broken THEN "Network connection lost." ELSE ""]

Forbidden == PlainText(<<"forbidden">>)

EmptyBody == PlainText(<<>>)

\* Every behaviour of the upstream API the model draws from.  A 304 carries no
\* body, so its text is empty.
UpstreamOutcomes ==
  {NetworkError("Network connection lost.")}
    \cup {Upstream(s, JsonText(f, JsCandidates), FALSE) : s \in {200, 201}, f \in {"json", "spaced"}}
    \cup {Upstream(200, Forbidden, FALSE), Upstream(200, EmptyBody, FALSE),
          Upstream(200, JsonText("json", JsNull), FALSE),
          Upstream(200, JsonText("json", JsCandidates), TRUE)}
    \cup {Upstream(s, b, FALSE) : s \in {403, 503}, b \in {Forbidden, JsonText("spaced", JsError("API key not valid"))}}
    \cup {Upstream(403, Forbidden, TRUE), Upstream(304, EmptyBody, FALSE)}

\* The behaviours of the runs with several invocations.
FewOutcomes ==
  {NetworkError("Network connection lost."),
   Upstream(200, JsonText("spaced", JsCandidates), FALSE),
   Upstream(403, Forbidden, FALSE)}

\* Mutant: only 200 counts as success.
Ok_only200(status) == status = 200

\* response.ok
Ok(status) == status \in 200..299

(***************************************************************************)
(* Responses to the client                                                  *)
(***************************************************************************)
TextPlain == "text/plain;charset=UTF-8"

ApplicationJson == "application/json"

\* new Response(body, {status, headers}): a string body without headers gets
\* the text/plain content type.
Response(body, status, contentType) ==
  [status |-> status, contentType |-> contentType, body |-> body]

\* What new Response(body, {status}) throws for a body that is not null: a
\* RangeError for a status outside 200..599, a TypeError for a null body status.
\* "" when it constructs the Response.
ResponseInitError(status) ==
  IF status \notin 200..599
  THEN "The status provided is outside the range [200, 599]."
  ELSE IF status \in {204, 205, 304}
  THEN "Response with null body status cannot have body"
  ELSE ""

LogEntry(msg, arg) == [msg |-> msg, arg |-> arg]

\* The upstream endpoint with the credential as its query parameter.
ApiUrl(geminiApiKey) ==
  <<"https://generativelanguage.googleapis.com/v1beta/models/gemini-2.5-flash-preview-05-20:generateContent?key=",
    geminiApiKey>>

\* Mutant: the check of the credential is skipped.
CredentialMissing_skipped(geminiApiKey) == FALSE

\* !geminiApiKey
CredentialMissing(geminiApiKey) == geminiApiKey \in {Undefined, ""}

Invocations == DOMAIN pc

\* return r
Return(i, r) ==
  /\ resp' = [resp EXCEPT ![i] = Append(@, r)]
  /\ pc' = [pc EXCEPT ![i] = "done"]

\* An exception leaves the handler: the invocation ends without a Response.
Throw(i, message) ==
  /\ pc' = [pc EXCEPT ![i] = "thrown"]
  /\ local' = [local EXCEPT ![i].thrown = message]

\* Mutant: a call identical to one another invocation has made is not repeated.
fetch_deduplicated(i, apiUrl, body) ==
  LET call == [url |-> apiUrl, method |-> "POST", contentType |-> ApplicationJson,
               body |-> body]
  IN sent' = [sent EXCEPT ![i] =
       IF \E j \in DOMAIN sent : j # i /\ sent[j] = <<call>> THEN @ ELSE Append(@, call)]

\* fetch(apiUrl, {method: 'POST', headers, body}): one outbound call.
fetch(i, apiUrl, body) ==
  sent' = [sent EXCEPT ![i] = Append(@,
             [url |-> apiUrl, method |-> "POST", contentType |-> ApplicationJson,
              body |-> body])]

Log(i, msg, arg) ==
  console' = [console EXCEPT ![i] = Append(@, LogEntry(msg, arg))]

(***************************************************************************)
(* onRequest: the generic gateway (src/briefing.js)                         *)
(***************************************************************************)
\* Mutant: PUT is let through as well.
MethodAllowed_orPut(method) == method \in {"POST", "PUT"}

\* context.request.method !== 'POST' is the rejection.
MethodAllowed(method) == method = "POST"

\* Mutant: the failure message names the URL that was fetched.
onRequest_catch_withUrl(i, logged, message) ==
  /\ console' = [console EXCEPT ![i] =
       Append(logged, LogEntry("Error processing request in gateway:", PlainText(<<message>>)))]
  /\ Return(i, Response(PlainText(<<"Error processing request: ", message, " at ">> \o ApiUrl(env[i])),
                        500, TextPlain))

\* The catch block: logs the error and answers 500 with its message.  logged is
\* what the try block has written to the console in this step.
onRequest_catch(i, logged, message) ==
  /\ console' = [console EXCEPT ![i] =
       Append(logged, LogEntry("Error processing request in gateway:", PlainText(<<message>>)))]
  /\ Return(i, Response(PlainText(<<"Error processing request: ", message>>), 500, TextPlain))

\* Lines 6-12: the method check, then the call of request.json().
onRequest_Enter(i) ==
  /\ pc[i] = "start"
  /\ request[i].gateway = "generic"
  /\ IF ~MethodAllowed(request[i].method)
     THEN /\ Return(i, Response(PlainText(<<"Invalid request method.">>), 405, TextPlain))
          /\ UNCHANGED touched
     ELSE /\ pc' = [pc EXCEPT ![i] = "request.json"]
          /\ touched' = [touched EXCEPT ![i].body = TRUE]
          /\ UNCHANGED resp
  /\ UNCHANGED <<request, env, gemini, local, sent, console>>

\* Lines 12-33: request.json() has settled; the credential check; the fetch.
onRequest_Payload(i) ==
  /\ pc[i] = "request.json"
  /\ request[i].gateway = "generic"
  /\ LET parsed == Parse(request[i].body) IN
     IF ~parsed.ok
     THEN /\ onRequest_catch(i, console[i], parsed.message)
          /\ UNCHANGED <<local, sent, touched>>
     ELSE /\ local' = [local EXCEPT ![i].body = parsed.val]
          /\ touched' = [touched EXCEPT ![i].key = TRUE]
          /\ IF CredentialMissing(env[i])
             THEN /\ Log(i, "CRITICAL: GEMINI_API_KEY is not set in environment variables.", EmptyBody)
                  /\ Return(i, Response(
                       PlainText(<<"API key is not configured on the server. Please contact the administrator.">>),
                       500, TextPlain))
                  /\ UNCHANGED sent
             ELSE /\ fetch(i, ApiUrl(env[i]), Stringify(parsed.val))
                  /\ pc' = [pc EXCEPT ![i] = "fetch"]
                  /\ UNCHANGED <<resp, console>>
  /\ UNCHANGED <<request, env, gemini>>

\* Lines 27-35: the fetch has settled; response.ok chooses the body reader.
onRequest_Fetched(i) ==
  /\ pc[i] = "fetch"
  /\ request[i].gateway = "generic"
  /\ \E o \in gemini :
       /\ local' = [local EXCEPT ![i].outcome = o]
       /\ IF o.kind = "error"
          THEN onRequest_catch(i, console[i], o.message)
          ELSE /\ pc' = [pc EXCEPT ![i] =
                    IF Ok(o.status) THEN "response.json" ELSE "response.text"]
               /\ UNCHANGED <<resp, console>>
  /\ UNCHANGED <<request, env, gemini, sent, touched>>

\* Lines 36-38: the upstream error body is relayed with the upstream status.
onRequest_ErrorBody(i) ==
  /\ pc[i] = "response.text"
  /\ request[i].gateway = "generic"
  /\ LET response == local[i].outcome
         logged == Append(console[i], LogEntry("Error from Gemini API:", response.body))
     IN IF response.broken
        THEN onRequest_catch(i, console[i], response.message)
        ELSE IF ResponseInitError(response.status) # ""
        THEN onRequest_catch(i, logged, ResponseInitError(response.status))
        ELSE /\ console' = [console EXCEPT ![i] = logged]
             /\ Return(i, Response(response.body, response.status, TextPlain))
  /\ UNCHANGED <<request, env, gemini, local, sent, touched>>

\* Lines 42-46: the upstream JSON is parsed, serialized again and returned.
onRequest_Data(i) ==
  /\ pc[i] = "response.json"
  /\ request[i].gateway = "generic"
  /\ LET response == local[i].outcome
         data == Parse(response.body)
     IN IF response.broken
        THEN onRequest_catch(i, console[i], response.message)
        ELSE IF ~data.ok
        THEN onRequest_catch(i, console[i], data.message)
        ELSE /\ Return(i, Response(Stringify(data.val), 200, ApplicationJson))
             /\ UNCHANGED console
  /\ UNCHANGED <<request, env, gemini, local, sent, touched>>

(***************************************************************************)
(* onRequestPost: the structured analysis gateway (src/unnamed/part_000)    *)
(***************************************************************************)
\* Mutant: Array.isArray is not asked; anything with a length passes.
ValidCoins_anyLength(coins) ==
  /\ coins.kind # "undefined"
  /\ (coins.kind = "array" => Len(coins.items) # 0)

\* The negation of  !coins || !Array.isArray(coins) || coins.length === 0.
ValidCoins(coins) ==
  /\ coins.kind # "undefined"
  /\ coins.kind = "array"
  /\ Len(coins.items) # 0

\* Mutant: an element equal to the one after it is dropped.
RECURSIVE join_distinct(_, _)
join_distinct(items, separator) ==
  IF Len(items) = 0 THEN <<>>
  ELSE IF Len(items) = 1 THEN <<items[1]>>
  ELSE IF items[1] = items[2] THEN join_distinct(Tail(items), separator)
  ELSE <<items[1], separator>> \o join_distinct(Tail(items), separator)

\* Array.prototype.join on strings: the elements in order, separator between.
RECURSIVE join(_, _)
join(items, separator) ==
  IF Len(items) = 0 THEN <<>>
  ELSE IF Len(items) = 1 THEN <<items[1]>>
  ELSE <<items[1], separator>> \o join(Tail(items), separator)

prompt_ko_head ==
  "ko: You are the senior financial analyst AI of 'Oracoin' ... for the following cryptocurrencies: "

prompt_ko_tail ==
  ". ko: follow the JSON schema ... ko disclaimer: informational purposes only, not investment advice."

prompt_en_head ==
  "You are a senior financial analyst AI for a service called 'Oracoin' ... selected by the user: "

prompt_en_tail ==
  ". For each coin ... Disclaimer: This analysis is for informational purposes only and does not constitute financial advice. You are solely responsible for your own investment decisions."

\* The two templates, each around ${coinListString}; the tail of each holds
\* the disclaimer of its language.
prompt_ko(coinListString) ==
  <<prompt_ko_head>> \o coinListString \o <<prompt_ko_tail>>

prompt_en(coinListString) ==
  <<prompt_en_head>> \o coinListString \o <<prompt_en_tail>>

\* lang === 'ko' ? prompt_ko : prompt_en
prompt(lang, coins) ==
  IF lang = "ko" THEN prompt_ko(join(coins.items, ", "))
  ELSE prompt_en(join(coins.items, ", "))

responseSchema ==
  "ARRAY of OBJECT {coinName, analysis {opinion, recommendation, priceTarget}, relatedNews [{title, url}]} required coinName, analysis, relatedNews"

tools == "google_search"

\* {contents: [{parts: [{text: prompt}]}], tools, generationConfig}
payload(lang, coins) ==
  JsValue("payload", Undefined, CoinsUndefined, prompt(lang, coins), tools, responseSchema)

JsonResponse(val, status) == Response(Stringify(val), status, ApplicationJson)

\* The catch block around the fetch.
onRequestPost_catch(i, logged, message) ==
  /\ console' = [console EXCEPT ![i] =
       Append(logged, LogEntry("Error in API gateway:", PlainText(<<message>>)))]
  /\ Return(i, JsonResponse(JsError("Internal server error."), 500))

\* Line 10: the call of request.json().
onRequestPost_Enter(i) ==
  /\ pc[i] = "start"
  /\ request[i].gateway = "structured"
  /\ pc' = [pc EXCEPT ![i] = "request.json"]
  /\ touched' = [touched EXCEPT ![i].body = TRUE]
  /\ UNCHANGED <<request, env, gemini, local, sent, resp, console>>

\* Lines 10-87: request.json() has settled, outside any try; the destructuring;
\* the validation of coins; the credential check; the payload; the fetch.
onRequestPost_Body(i) ==
  /\ pc[i] = "request.json"
  /\ request[i].gateway = "structured"
  /\ LET parsed == Parse(request[i].body) IN
     IF ~parsed.ok
     THEN /\ Throw(i, parsed.message)
          /\ UNCHANGED <<sent, resp, touched>>
     ELSE IF parsed.val.kind = "null"
     THEN /\ Throw(i, "Cannot destructure property 'lang' of null")
          /\ UNCHANGED <<sent, resp, touched>>
     ELSE LET lang == parsed.val.lang
              coins == parsed.val.coins
          IN IF ~ValidCoins(coins)
             THEN /\ Return(i, JsonResponse(JsError("Coin list is required for analysis."), 400))
                  /\ local' = [local EXCEPT ![i].body = parsed.val]
                  /\ UNCHANGED <<sent, touched>>
             ELSE /\ touched' = [touched EXCEPT ![i].key = TRUE]
                  /\ local' = [local EXCEPT ![i].body = parsed.val]
                  /\ IF CredentialMissing(env[i])
                     THEN /\ Return(i, JsonResponse(JsError("API key not configured on the server."), 500))
                          /\ UNCHANGED sent
                     ELSE /\ fetch(i, ApiUrl(env[i]), Stringify(payload(lang, coins)))
                          /\ pc' = [pc EXCEPT ![i] = "fetch"]
                          /\ UNCHANGED resp
  /\ UNCHANGED <<request, env, gemini, console>>

\* Lines 83-89: the fetch has settled.
onRequestPost_Fetched(i) ==
  /\ pc[i] = "fetch"
  /\ request[i].gateway = "structured"
  /\ \E o \in gemini :
       /\ local' = [local EXCEPT ![i].outcome = o]
       /\ IF o.kind = "error"
          THEN onRequestPost_catch(i, console[i], o.message)
          ELSE /\ pc' = [pc EXCEPT ![i] =
                    IF Ok(o.status) THEN "response.json" ELSE "response.text"]
               /\ UNCHANGED <<resp, console>>
  /\ UNCHANGED <<request, env, gemini, sent, touched>>

\* Lines 90-95: the upstream error body is logged, a fixed error is returned
\* with the upstream status.
onRequestPost_ErrorBody(i) ==
  /\ pc[i] = "response.text"
  /\ request[i].gateway = "structured"
  /\ LET geminiResponse == local[i].outcome
         logged == Append(console[i], LogEntry("Gemini API Error: ", geminiResponse.body))
     IN IF geminiResponse.broken
        THEN onRequestPost_catch(i, console[i], geminiResponse.message)
        ELSE IF ResponseInitError(geminiResponse.status) # ""
        THEN onRequestPost_catch(i, logged, ResponseInitError(geminiResponse.status))
        ELSE /\ console' = [console EXCEPT ![i] = logged]
             /\ Return(i, JsonResponse(JsError("Failed to fetch from Gemini API."), geminiResponse.status))
  /\ UNCHANGED <<request, env, gemini, local, sent, touched>>

\* Lines 98-102: the upstream JSON is parsed, serialized again and returned.
onRequestPost_Data(i) ==
  /\ pc[i] = "response.json"
  /\ request[i].gateway = "structured"
  /\ LET geminiResponse == local[i].outcome
         geminiData == Parse(geminiResponse.body)
     IN IF geminiResponse.broken
        THEN onRequestPost_catch(i, console[i], geminiResponse.message)
        ELSE IF ~geminiData.ok
        THEN onRequestPost_catch(i, console[i], geminiData.message)
        ELSE /\ Return(i, JsonResponse(geminiData.val, 200))
             /\ UNCHANGED console
  /\ UNCHANGED <<request, env, gemini, local, sent, touched>>

(***************************************************************************)
(* Requests, configurations and the specifications                         *)
(***************************************************************************)
NotJson == PlainText(<<"not json">>)

RequestBodies ==
  {NotJson, Stringify(JsNull), Stringify(JsNumber),
   JsonText("spaced", JsObject("ko", CoinsArray(<<"BTC">>)))}
    \cup {Stringify(JsObject(l, c)) : l \in LangValues, c \in CoinsValues}

FewBodies ==
  {NotJson, Stringify(JsObject(Undefined, CoinsUndefined)),
   JsonText("spaced", JsObject("ko", CoinsArray(<<"BTC">>)))}

\* The generic gateway is bound to every method, the structured one to POST.
Requests(bodies) ==
  {[gateway |-> "generic", method |-> m, body |-> b] : m \in {"POST", "GET", "PUT"}, b \in bodies}
    \cup {[gateway |-> "structured", method |-> "POST", body |-> b] : b \in bodies}

NoLocal == [body |-> JsNull, outcome |-> NoOutcome, thrown |-> ""]

Fresh(n) ==
  /\ pc = [i \in 1..n |-> "start"]
  /\ local = [i \in 1..n |-> NoLocal]
  /\ sent = [i \in 1..n |-> <<>>]
  /\ resp = [i \in 1..n |-> <<>>]
  /\ console = [i \in 1..n |-> <<>>]
  /\ touched = [i \in 1..n |-> [body |-> FALSE, key |-> FALSE]]

\* One invocation, any request, any configuration, any upstream behaviour.
Init ==
  /\ request \in [1..1 -> Requests(RequestBodies)]
  /\ env \in [1..1 -> {Undefined, "", "key-A"}]
  /\ gemini = UpstreamOutcomes
  /\ Fresh(1)

\* Two runs of one request, each under its own configuration.
InitPair ==
  /\ request \in {[i \in 1..2 |-> r] : r \in Requests(RequestBodies)}
  /\ env \in [1..2 -> {Undefined, "key-A", "key-B"}]
  /\ gemini = UpstreamOutcomes
  /\ Fresh(2)

\* NumInv concurrent invocations.
InitConc ==
  /\ request \in [1..NumInv -> Requests(FewBodies)]
  /\ env \in [1..NumInv -> {Undefined, "key-A"}]
  /\ gemini = FewOutcomes
  /\ Fresh(NumInv)

Next ==
  \/ \E i \in Invocations : onRequest_Enter(i)
  \/ \E i \in Invocations : onRequest_Payload(i)
  \/ \E i \in Invocations : onRequest_Fetched(i)
  \/ \E i \in Invocations : onRequest_ErrorBody(i)
  \/ \E i \in Invocations : onRequest_Data(i)
  \/ \E i \in Invocations : onRequestPost_Enter(i)
  \/ \E i \in Invocations : onRequestPost_Body(i)
  \/ \E i \in Invocations : onRequestPost_Fetched(i)
  \/ \E i \in Invocations : onRequestPost_ErrorBody(i)
  \/ \E i \in Invocations : onRequestPost_Data(i)

Spec == Init /\ [][Next]_vars

SpecPair == InitPair /\ [][Next]_vars

SpecConc == InitConc /\ [][Next]_vars

(***************************************************************************)
(* Vocabulary of the properties, read off the request and not off the       *)
(* handlers' own checks                                                     *)
(***************************************************************************)
Final(i) == pc[i] \in {"done", "thrown"}

IsPost(i) == request[i].method = "POST"

BodyIsJson(i) == request[i].body.fmt \in {"json", "spaced"}

\* coins is present, is an array and is not empty.
CoinsOk(i) ==
  /\ request[i].body.val.coins.kind = "array"
  /\ request[i].body.val.coins.items # <<>>

Configured(i) == env[i] \notin {Undefined, ""}

\* The request passes the method, body, coins and credential checks.
ValidRequest(i) ==
  /\ IsPost(i)
  /\ BodyIsJson(i)
  /\ request[i].gateway = "structured" =>
       (request[i].body.val.kind # "null" /\ CoinsOk(i))
  /\ Configured(i)

IsSuccess(status) == 200 <= status /\ status <= 299

\* The string s is a segment of the text, or of a message inside its JSON value.
Mentions(text, s) ==
  \/ \E n \in 1..Len(text.str) : text.str[n] = s
  \/ \E n \in 1..Len(text.val.text) : text.val.text[n] = s

(***************************************************************************)
(* C1: two runs of one request that differ only in the value of a non-empty *)
(* GEMINI_API_KEY and see the same upstream behaviour end with the same     *)
(* client response (or both with none), and no response body holds the      *)
(* credential.                                                              *)
(***************************************************************************)
C1_ResponseIndependentOfCredential ==
  \A i, j \in Invocations :
    (/\ Final(i) /\ Final(j)
     /\ request[i] = request[j]
     /\ Configured(i) /\ Configured(j)
     /\ local[i].outcome = local[j].outcome)
    => /\ resp[i] = resp[j]
       /\ \A k \in 1..Len(resp[i]) : ~Mentions(resp[i][k].body, env[i])

C1_Witness ==
  /\ Invocations = {1, 2}
  /\ pc[1] = "done" /\ pc[2] = "done"
  /\ request[1].gateway = "generic"
  /\ env[1] = "key-A" /\ env[2] = "key-B"
  /\ local[1].outcome.kind = "error"
  /\ local[2].outcome = local[1].outcome
  /\ Len(resp[1]) = 1 /\ resp[1] = resp[2]
  /\ resp[1][1].status = 500

(***************************************************************************)
(* C2: every invocation of either handler ends by returning exactly one     *)
(* response; no failure leaves the handler unhandled; a body that is not    *)
(* JSON, a network failure and a success body that is not JSON are answered *)
(* with status 500 where no other error status applies.                     *)
(***************************************************************************)
C2_ExactlyOneResponseNoFault ==
  \A i \in Invocations :
    /\ pc[i] # "thrown"
    /\ Len(resp[i]) = (IF pc[i] = "done" THEN 1 ELSE 0)
    /\ (pc[i] = "done" /\ local[i].outcome.kind = "error") => resp[i][1].status = 500

C5_NonPostRejected ==
  \A i \in Invocations :
    (request[i].gateway = "generic" /\ ~IsPost(i))
    => /\ sent[i] = <<>>
       /\ ~touched[i].body
       /\ ~touched[i].key
       /\ pc[i] \in {"start", "done"}
       /\ pc[i] = "done" => (Len(resp[i]) = 1 /\ resp[i][1].status = 405)

C5_Witness ==
  \E i \in Invocations :
    /\ request[i].gateway = "generic"
    /\ request[i].method = "PUT"
    /\ BodyIsJson(i)
    /\ env[i] = "key-A"
    /\ pc[i] = "done"
    /\ resp[i][1].status = 405

(***************************************************************************)
(* C6: when the upstream call returns a non-success status S with text T,   *)
(* the generic gateway answers status S with body T, the structured gateway *)
(* status S with {error: "Failed to fetch from Gemini API."}, after exactly *)
(* one upstream call.                                                       *)
(***************************************************************************)
C6_UpstreamFailureRelayed ==
  \A i \in Invocations :
    (/\ pc[i] = "done"
     /\ local[i].outcome.kind = "response"
     /\ ~IsSuccess(local[i].outcome.status)
     /\ ~local[i].outcome.broken)
    => /\ Len(sent[i]) = 1
       /\ Len(resp[i]) = 1
       /\ resp[i][1].status = local[i].outcome.status
       /\ resp[i][1].body =
            (IF request[i].gateway = "generic"
             THEN local[i].outcome.body
             ELSE JsonText("json", JsError("Failed to fetch from Gemini API.")))

(***************************************************************************)
(* C7: when the upstream call returns a success status with JSON body B,    *)
(* both gateways answer status 200 with B parsed and serialized again; the  *)
(* body the generic gateway sent upstream is the client's parsed body.      *)
(***************************************************************************)
C7_UpstreamSuccessRelayed ==
  \A i \in Invocations :
    (/\ pc[i] = "done"
     /\ local[i].outcome.kind = "response"
     /\ IsSuccess(local[i].outcome.status)
     /\ ~local[i].outcome.broken
     /\ local[i].outcome.body.fmt \in {"json", "spaced"})
    => /\ Len(resp[i]) = 1
       /\ resp[i][1].status = 200
       /\ resp[i][1].contentType = "application/json"
       /\ resp[i][1].body.fmt = "json"
       /\ resp[i][1].body.val = local[i].outcome.body.val
       /\ request[i].gateway = "generic" =>
            /\ Len(sent[i]) = 1
            /\ sent[i][1].body.fmt = "json"
            /\ sent[i][1].body.val = request[i].body.val

C7_Witness ==
  \E i \in Invocations :
    /\ pc[i] = "done"
    /\ request[i].gateway = "generic"
    /\ request[i].body.fmt = "spaced"
    /\ local[i].outcome.status = 201
    /\ local[i].outcome.body.fmt = "spaced"
    /\ resp[i][1].status = 200
    /\ resp[i][1].body # local[i].outcome.body
    /\ resp[i][1].body.val = local[i].outcome.body.val

(***************************************************************************)
(* C8: in every interleaving of concurrent invocations, an invocation whose *)
(* request passes the checks makes exactly one outbound call, one whose     *)
(* request fails a check makes none, a response follows the invocation's    *)
(* own call, and in the end the calls are as many as the valid requests.    *)
(***************************************************************************)
C8_OneCallPerValidRequest ==
  /\ \A i \in Invocations :
       /\ Len(sent[i]) <= 1
       /\ ~ValidRequest(i) => sent[i] = <<>>
       /\ (ValidRequest(i) /\ pc[i] \notin {"start", "request.json"}) => Len(sent[i]) = 1
       /\ (ValidRequest(i) /\ resp[i] # <<>>) =>
            (Len(sent[i]) = 1 /\ local[i].outcome.kind # "none")
       /\ Final(i) => pc[i] = "thrown" \/ Len(resp[i]) = 1
  /\ (\A i \in Invocations : Final(i)) =>
       Cardinality({i \in Invocations : sent[i] # <<>>})
         = Cardinality({i \in Invocations : ValidRequest(i)})

C8_Witness ==
  /\ Cardinality(Invocations) >= 2
  /\ \A i \in Invocations : pc[i] = "done" /\ ValidRequest(i) /\ Len(sent[i]) = 1
  /\ request[1] = request[2] /\ env[1] = env[2]
  /\ sent[1] = sent[2]
  /\ local[1].outcome.kind = "error"
  /\ local[2].outcome.kind = "response"

(***************************************************************************)
(* C9: the prompt the structured gateway sends holds the coins, each once,  *)
(* in input order, separated by ", "; it is the Korean template with the    *)
(* Korean disclaimer exactly when lang is 'ko' and the English one for any  *)
(* other lang; the schema and the tools are the same in every payload.      *)
(***************************************************************************)
C9_PromptEmbedsCoinsInOrder ==
  \A i \in Invocations :
    (request[i].gateway = "structured" /\ sent[i] # <<>>)
    => LET sentPayload == sent[i][1].body.val
           text == sentPayload.text
           coins == request[i].body.val.coins.items
           ko == request[i].body.val.lang = "ko"
       IN /\ coins # <<>>
          /\ Len(text) = 2 * Len(coins) + 1
          /\ \A k \in 1..Len(coins) : text[2 * k] = coins[k]
          /\ \A k \in 1..(Len(coins) - 1) : text[2 * k + 1] = ", "
          /\ text[1] = (IF ko THEN prompt_ko_head ELSE prompt_en_head)
          /\ text[Len(text)] = (IF ko THEN prompt_ko_tail ELSE prompt_en_tail)
          /\ sentPayload.kind = "payload"
          /\ sentPayload.tools = "google_search"
          /\ sentPayload.schema = responseSchema

C9_Witness ==
  \E i \in Invocations :
    /\ request[i].gateway = "structured"
    /\ request[i].body.val.lang = "KO"
    /\ request[i].body.val.coins.items = <<"BTC", "BTC">>
    /\ sent[i] # <<>>
    /\ sent[i][1].body.val.text[1] = prompt_en_head
    /\ sent[i][1].body.val.text[2] = "BTC"
    /\ sent[i][1].body.val.text[4] = "BTC"

(***************************************************************************)
(* C10: a POST whose body is not JSON is answered locally, with status 400  *)
(* by the structured gateway and 500 by the generic gateway, and nothing is *)
(* sent upstream.                                                           *)
(***************************************************************************)
C10_UnparsableBodyAnswered ==
  \A i \in Invocations :
    (IsPost(i) /\ ~BodyIsJson(i) /\ Final(i))
    => /\ sent[i] = <<>>
       /\ Len(resp[i]) = 1
       /\ resp[i][1].status = (IF request[i].gateway = "structured" THEN 400 ELSE 500)

====
